---- MODULE Spec2Model ----
(***************************************************************************)
(* Model of dozer-core's EpochManager (src/dozer-core/src/epoch/manager.rs) *)
(* N source threads synchronise on an epoch close through                  *)
(* wait_for_epoch_close: a vote folded under the state mutex (Phase A), a  *)
(* std::sync::Barrier rendezvous, the decision taken by the first thread    *)
(* that finds the state still Closing (Phase B) and the readout of the      *)
(* Closed state by every thread (Phase C).                                  *)
(***************************************************************************)
EXTENDS Integers, FiniteSets, Sequences, TLC

\* ------------------------------------------------------------------ bounds
\* Largest num_sources the constructor is called with.
MaxSources == 2
\* Total number of wait_for_epoch_close calls made in one behaviour, shared
\* equally between the sources.
MaxCalls == 4
\* Largest reading of SystemTime::now(), in ticks.
MaxInstant == 3
\* Resolution of the modelled clock: ticks per second.
TicksPerSecond == 2
\* Reading of SystemTime::now() when the manager is constructed, in ticks.
ConstructionInstant == 1
\* The epoch id the manager is constructed with.
InitialEpochId == 5
\* Number of closes the log keeps.
MaxLog == 3
\* Width of an epoch id, in bits: the u64 scaled down.
EpochIdBits == 4

\* ------------------------------------------------------------- vocabulary
Threads == 1..(MaxSources + 1)
SourceStateValues == {"NotStarted", "Restartable", "NonRestartable"}
RecordLimits == {0, 1}
IntervalSeconds == {0, 1}

\* Option<T>: None is the empty set, Some(x) the singleton.
None == {}
Some(x) == {x}
IsSome(o) == o # {}
Unwrap(o) == CHOOSE x \in o : TRUE

\* The arguments of one call of wait_for_epoch_close.
CallArgs ==
    [source_state : Threads \X SourceStateValues,
     request_termination : BOOLEAN,
     request_commit : BOOLEAN]

\* Thread t is the source whose NodeHandle is t.
ArgsOf(t) == {a \in CallArgs : a.source_state[1] = t}

VARIABLES
    num_sources,    \* EpochManager.num_sources
    options,        \* EpochManager.options
    kind,           \* EpochManagerState.kind
    next_record_index_to_persist,
    last_persisted_epoch_decision_instant,
    lock,           \* Option of the thread that holds the state mutex
    barrier_count,  \* barrier id -> number of threads waiting in its current generation
    next_barrier,   \* id the next Barrier::new gets
    callers,        \* threads that call wait_for_epoch_close
    pc,             \* position of each thread in wait_for_epoch_close
    my_barrier,     \* the barrier clone a thread took out of the loop
    result,         \* Option<ClosedEpoch> the last decided close returned to the thread
    epoch_id_read,  \* Option of the value the last call of epoch_id() returned
    \* history
    initial_epoch_id,   \* epoch id given to the constructor
    calls,              \* thread -> calls made so far
    handed_out,         \* the ids of the common_info handed out, one per committed close
    close_no,           \* number of closes completed (state rolled to a new Closing)
    num_committed,      \* number of completed closes whose action committed
    joined,             \* thread -> close its vote of the current call was folded into
    retried,            \* thread -> its current call has slept in the retry loop
    horizon,            \* the largest reading of SystemTime::now() in this run
    built,              \* whether EpochManager::new returned a manager
    tracing,            \* whether the close before the current one is remembered
    previous,           \* when tracing: the close completed last
    logging,            \* whether the closes are logged: they have followed the test
    log,                \* when logging: one entry per close, in order
    submitted,          \* what was submitted to the close now open
    decided             \* what had been submitted to the close last decided

state_vars == <<kind, next_record_index_to_persist, last_persisted_epoch_decision_instant>>
config_vars == <<num_sources, options, callers, initial_epoch_id, tracing, horizon,
                 built>>

\* The readings SystemTime::now() can give in this run.
Instants == 0..horizon
thread_vars == <<pc, my_barrier, result>>
barrier_vars == <<barrier_count, next_barrier>>
history_vars == <<calls, handed_out, close_no, num_committed, joined, retried, logging, log,
                  previous, submitted, decided>>
observer_vars == <<epoch_id_read>>
vars == <<state_vars, config_vars, thread_vars, barrier_vars, history_vars, lock, observer_vars>>

\* ------------------------------------------------------------ source maps
\* SourceStates is a HashMap<NodeHandle, SourceState>.
EmptyMap == [h \in {} |-> "NotStarted"]
\* Mutant: the insert replaces the map instead of adding to it.
MapInsertReplacing(m, k, v) == [h \in {k} |-> v]

MapInsert(m, k, v) == [h \in DOMAIN m \cup {k} |-> IF h = k THEN v ELSE m[h]]

\* ------------------------------------------------------------------ Action
\* Mutant: only the plain Commit counts as committing.
ShouldCommitPlainOnly(action) == action = "Commit"

ShouldCommit(action) == action \in {"Commit", "CommitAndPersist"}
\* Mutant: every committing action persists.
ShouldPersistOnCommit(action) == action \in {"Commit", "CommitAndPersist"}

ShouldPersist(action) == action = "CommitAndPersist"

\* ------------------------------------------------- EpochManagerStateKind
\* Mutant: a new Closing state that already asks for a commit.
NewClosingCommitting(epoch_id, barrier) ==
    [tag |-> "Closing",
     epoch_id |-> epoch_id,
     should_terminate |-> TRUE,
     should_commit |-> TRUE,
     source_states |-> EmptyMap,
     barrier |-> barrier]

NewClosing(epoch_id, barrier) ==
    [tag |-> "Closing",
     epoch_id |-> epoch_id,
     should_terminate |-> TRUE,
     should_commit |-> FALSE,
     source_states |-> EmptyMap,
     barrier |-> barrier]

\* Mutant: a Closed state of a committed close already answers with the next id.
KindEpochIdAhead(k) ==
    IF k.tag = "Closed" /\ k.action \in {"Commit", "CommitAndPersist"}
    THEN k.epoch_id + 1 ELSE k.epoch_id

KindEpochId(k) == k.epoch_id

\* Mutant: the last request_termination wins instead of being folded with AND.
FoldVoteLastTerminationWins(k, a) ==
    [k EXCEPT !.should_terminate = a.request_termination,
              !.should_commit = k.should_commit \/ a.request_commit,
              !.source_states = MapInsert(k.source_states, a.source_state[1], a.source_state[2])]

\* Mutant: request_commit is folded with AND instead of OR.
FoldVoteCommitAll(k, a) ==
    [k EXCEPT !.should_terminate = k.should_terminate /\ a.request_termination,
              !.should_commit = k.should_commit /\ a.request_commit,
              !.source_states = MapInsert(k.source_states, a.source_state[1], a.source_state[2])]

\* Mutant: the first vote alone decides whether to commit.
FoldVoteFirstCommitWins(k, a) ==
    [k EXCEPT !.should_terminate = k.should_terminate /\ a.request_termination,
              !.should_commit = IF k.source_states = EmptyMap
                                THEN a.request_commit ELSE k.should_commit,
              !.source_states = MapInsert(k.source_states, a.source_state[1], a.source_state[2])]

\* Mutant: the source state of the vote is not recorded.
FoldVoteUnrecorded(k, a) ==
    [k EXCEPT !.should_terminate = k.should_terminate /\ a.request_termination,
              !.should_commit = k.should_commit \/ a.request_commit]

\* The Closing arm of the loop: fold one vote into the Closing state.
FoldVote(k, a) ==
    [k EXCEPT !.should_terminate = k.should_terminate /\ a.request_termination,
              !.should_commit = k.should_commit \/ a.request_commit,
              !.source_states = MapInsert(k.source_states, a.source_state[1], a.source_state[2])]

\* ------------------------------------------------------------------- time
\* Mutant: the interval is taken in ticks, not in seconds.
DurationFromTicks(s) == s

DurationFromSecs(s) == s * TicksPerSecond

\* Mutant: a clock that went back counts as time elapsed.
DurationSinceAbsolute(instant, earlier) ==
    IF instant >= earlier THEN instant - earlier ELSE earlier - instant

\* instant.duration_since(earlier).unwrap_or(Duration::from_secs(0))
DurationSinceOrZero(instant, earlier) ==
    IF instant >= earlier THEN instant - earlier ELSE DurationFromSecs(0)

\* The condition of the persist branch.
\* Mutant: both thresholds must be reached.
PersistDueBoth(instant, num_records, next_index, last_instant, opts) ==
    /\ num_records - next_index >= opts.max_num_records_before_persist
    /\ DurationSinceOrZero(instant, last_instant)
          >= DurationFromSecs(opts.max_interval_before_persist_in_seconds)

\* Mutant: the record hook reports one record.
PersistDueOneRecord(instant, num_records, next_index, last_instant, opts) ==
    \/ 1 - next_index >= opts.max_num_records_before_persist
    \/ DurationSinceOrZero(instant, last_instant)
          >= DurationFromSecs(opts.max_interval_before_persist_in_seconds)

PersistDue(instant, num_records, next_index, last_instant, opts) ==
    \/ num_records - next_index >= opts.max_num_records_before_persist
    \/ DurationSinceOrZero(instant, last_instant)
          >= DurationFromSecs(opts.max_interval_before_persist_in_seconds)

NumRecords == 0

\* Mutant: the index kept is that of the record after the last one persisted.
PersistedIndexNext(num_records) == num_records + 1

\* `state.next_record_index_to_persist = num_records`
PersistedIndex(num_records) == num_records

\* Mutant: an overdue persist is emitted whether or not a commit was requested.
DecideActionPersistsOverdue(should_commit, instant, next_index, last_instant, opts) ==
    IF PersistDue(instant, NumRecords, next_index, last_instant, opts)
    THEN "CommitAndPersist"
    ELSE IF should_commit THEN "Commit" ELSE "Nothing"

DecideAction(should_commit, instant, next_index, last_instant, opts) ==
    IF should_commit
    THEN IF PersistDue(instant, NumRecords, next_index, last_instant, opts)
         THEN "CommitAndPersist"
         ELSE "Commit"
    ELSE "Nothing"

\* Mutant: Phase B leaves the state Closing.
MakeClosedKeepsClosing(k, action, instant) == k

MakeClosed(k, action, instant) ==
    [tag |-> "Closed",
     terminating |-> k.should_terminate,
     action |-> action,
     epoch_id |-> k.epoch_id,
     source_states |-> k.source_states,
     instant |-> instant,
     num_source_confirmations |-> 0]

\* Mutant: only Restartable counts as restartable, NotStarted does not.
IsRestartableStrict(source_states) ==
    \A h \in DOMAIN source_states : source_states[h] = "Restartable"

IsRestartable(source_states) ==
    \A h \in DOMAIN source_states : source_states[h] # "NonRestartable"

\* Mutant: the writer is built for the first reader only.
CheckpointWriterForFirstReader(k, opts) ==
    IF /\ ShouldPersist(k.action) /\ opts.enable_app_checkpoints
       /\ IsRestartable(k.source_states) /\ k.num_source_confirmations = 0
    THEN Some([epoch_id |-> k.epoch_id])
    ELSE None

CheckpointWriterFor(k, opts) ==
    IF ShouldPersist(k.action) /\ opts.enable_app_checkpoints /\ IsRestartable(k.source_states)
    THEN Some([epoch_id |-> k.epoch_id])
    ELSE None

\* Mutant: the queue is gated like the writer, on enable_app_checkpoints.
SinkPersistQueueForEnabled(k) ==
    IF ShouldPersist(k.action) /\ options.enable_app_checkpoints THEN Some("queue") ELSE None

\* Mutant: the queue is gated like the writer, on the restartability of the sources.
SinkPersistQueueForRestartable(k) ==
    IF ShouldPersist(k.action) /\ IsRestartable(k.source_states) THEN Some("queue") ELSE None

SinkPersistQueueFor(k) ==
    IF ShouldPersist(k.action) THEN Some("queue") ELSE None

CommonInfoFor(k, opts) ==
    IF ShouldCommit(k.action)
    THEN Some([id |-> k.epoch_id,
               checkpoint_writer |-> CheckpointWriterFor(k, opts),
               sink_persist_queue |-> SinkPersistQueueFor(k),
               source_states |-> k.source_states])
    ELSE None

MakeClosedEpoch(k, opts) ==
    [should_terminate |-> k.terminating,
     common_info |-> CommonInfoFor(k, opts),
     decision_instant |-> k.instant]

\* Mutant: the id advances at every close, committed or not.
NextEpochIdAlways(k) == k.epoch_id + 1

\* Mutant: the id is reused after a committed close.
NextEpochIdReused(k) == k.epoch_id

\* u64::MAX, at the modelled width.
MaxEpochId == 2^EpochIdBits - 1

\* Whether `*epoch_id + 1` overflows.
AddOverflows(k) == ShouldCommit(k.action) /\ k.epoch_id = MaxEpochId

\* The id of the next Closing state; an overflowing addition that does not
\* panic wraps around.
NextEpochId(k) ==
    IF ShouldCommit(k.action) THEN (k.epoch_id + 1) % (MaxEpochId + 1) ELSE k.epoch_id

\* ------------------------------------------------------------------ history
NoSubmission == [term |-> {}, commit |-> {}, states |-> {}, voters |-> {}]
NoDecision == [close |-> -1, term |-> {}, commit |-> {}, states |-> {}, voters |-> {},
               action |-> "Nothing", instant |-> 0, epoch_id |-> 0,
               last_persisted |-> 0, next_index |-> 0]

\* No close has been completed yet.
NoPrevious == [close |-> -1, action |-> "Nothing", instant |-> 0, terminating |-> FALSE]

\* What is remembered of a completed close: its Closed state's decision.
PreviousOf(k, close) ==
    [close |-> close, action |-> k.action, instant |-> k.instant, terminating |-> k.terminating]

\* Whether a close is one of the test's: a commit is requested and every source
\* state is NotStarted (generate_source_state).
OnScript(d) ==
    /\ TRUE \in d.commit
    /\ \A p \in d.states : p[2] = "NotStarted"

\* The log entry of a close: when it was decided and what its first reader got.
LogEntry(d, closed_epoch) ==
    [instant |-> closed_epoch.decision_instant,
     action |-> d.action,
     writer |-> IF IsSome(closed_epoch.common_info)
                THEN IsSome(Unwrap(closed_epoch.common_info).checkpoint_writer) ELSE FALSE,
     queue |-> IF IsSome(closed_epoch.common_info)
               THEN IsSome(Unwrap(closed_epoch.common_info).sink_persist_queue) ELSE FALSE]

Submit(s, t, a) ==
    [term |-> s.term \cup {a.request_termination},
     commit |-> s.commit \cup {a.request_commit},
     states |-> s.states \cup {a.source_state},
     voters |-> s.voters \cup {t}]

\* Each calling thread makes at most this many calls: MaxCalls calls in all.
CallsPerSource == MaxCalls \div Cardinality(callers)

\* --------------------------------------------------------------------- Init
OptionsSet ==
    [max_num_records_before_persist : RecordLimits,
     max_interval_before_persist_in_seconds : IntervalSeconds,
     enable_app_checkpoints : BOOLEAN]

\* debug_assert!(cond): a build with debug assertions panics when cond is false,
\* a build without them does not evaluate it. TRUE: the execution goes on.
DebugAssertOutcomes(cond) == IF cond THEN {TRUE} ELSE {TRUE, FALSE}

\* EpochManager::new
New(n, epoch_id, opts) ==
    /\ built \in DebugAssertOutcomes(n > 0)
    /\ num_sources = n
    /\ options = opts
    /\ kind = NewClosing(epoch_id, 0)
    /\ next_record_index_to_persist = 0
    /\ last_persisted_epoch_decision_instant = ConstructionInstant
    /\ lock = None
    /\ barrier_count = [b \in 0..MaxCalls |-> 0]
    /\ next_barrier = 1
    /\ initial_epoch_id = epoch_id

InitThreads ==
    /\ pc = [t \in Threads |-> "idle"]
    /\ my_barrier = [t \in Threads |-> 0]
    /\ result = [t \in Threads |-> None]
    /\ epoch_id_read = None
    /\ calls = [t \in Threads |-> 0]
    /\ handed_out = <<>>
    /\ close_no = 0
    /\ num_committed = 0
    /\ joined = [t \in Threads |-> -1]
    /\ retried = [t \in Threads |-> FALSE]
    /\ log = <<>>
    /\ previous = NoPrevious
    /\ submitted = NoSubmission
    /\ decided = NoDecision

Init ==
    /\ \E n \in 1..MaxSources, opts \in OptionsSet :
          /\ New(n, InitialEpochId, opts)
          /\ callers = 1..n
    /\ logging = FALSE
    /\ tracing = FALSE
    /\ horizon = MaxInstant
    /\ InitThreads

\* ------------------------------------------------------------------ actions
\* A source calls wait_for_epoch_close. The arguments are read only when the
\* vote is folded, so they are drawn there (LoopBody).
Call(t) ==
    /\ UNCHANGED observer_vars
    /\ UNCHANGED previous
    /\ built
    /\ t \in callers
    /\ pc[t] = "idle"
    /\ calls[t] < CallsPerSource
    /\ pc' = [pc EXCEPT ![t] = "loop"]
    /\ result' = [result EXCEPT ![t] = None]
    /\ joined' = [joined EXCEPT ![t] = -1]
    /\ retried' = [retried EXCEPT ![t] = FALSE]
    /\ calls' = [calls EXCEPT ![t] = @ + 1]
    \* the history of the last close is dropped once nobody holds a result of it
    /\ decided' = IF kind.tag = "Closing" /\ \A u \in Threads \ {t} : result[u] = None
                  THEN NoDecision ELSE decided
    /\ UNCHANGED <<state_vars, config_vars, barrier_vars, lock, my_barrier,
                   handed_out, close_no, num_committed, submitted, logging, log>>

\* Mutant: the guard outlives the loop iteration.
DropGuardLeaked(guard) == guard

\* The MutexGuard `state` is dropped: by drop(state) before the sleep, by leaving
\* the loop body's scope at the break.
DropGuard(guard) == None

\* self.state.lock() at the top of the loop.
LockLoop(t) ==
    /\ UNCHANGED observer_vars
    /\ UNCHANGED previous
    /\ pc[t] = "loop"
    /\ lock = None
    /\ lock' = Some(t)
    /\ pc' = [pc EXCEPT ![t] = "match"]
    /\ UNCHANGED <<state_vars, config_vars, barrier_vars, history_vars, my_barrier, result>>

\* The match of the loop body, with the lock held. a holds the arguments of the
\* call: (source_state, request_termination, request_commit).
LoopBody(t) ==
    /\ UNCHANGED observer_vars
    /\ UNCHANGED previous
    /\ pc[t] = "match"
    /\ lock = Some(t)
    /\ IF kind.tag = "Closing"
       THEN \E a \in ArgsOf(t) :
            /\ kind' = FoldVote(kind, a)
            /\ my_barrier' = [my_barrier EXCEPT ![t] = kind.barrier]
            /\ pc' = [pc EXCEPT ![t] = "barrier"]
            /\ joined' = [joined EXCEPT ![t] = close_no]
            /\ submitted' = Submit(submitted, t, a)
            \* a vote for the next close ends the history of the last one
            /\ decided' = NoDecision
            /\ result' = [u \in Threads |-> None]
            /\ UNCHANGED retried
       ELSE /\ pc' = [pc EXCEPT ![t] = "sleep"]
            /\ retried' = [retried EXCEPT ![t] = TRUE]
            /\ UNCHANGED <<kind, my_barrier, joined, submitted, decided, result>>
    /\ lock' = DropGuard(lock)
    /\ UNCHANGED <<next_record_index_to_persist, last_persisted_epoch_decision_instant,
                   config_vars, barrier_vars, calls, handed_out, close_no, num_committed,
                   logging, log>>

\* sleep(Duration::from_millis(1)) is over.
Wake(t) ==
    /\ UNCHANGED observer_vars
    /\ UNCHANGED previous
    /\ pc[t] = "sleep"
    /\ pc' = [pc EXCEPT ![t] = "loop"]
    /\ UNCHANGED <<state_vars, config_vars, barrier_vars, history_vars, lock,
                   my_barrier, result>>

\* Mutant: a barrier of num_sources - 1 parties.
BarrierIsLeaderOneShort(count, n) == count + 1 >= n - 1

\* Mutant: a barrier that holds nobody back.
BarrierIsLeaderAlways(count, n) == TRUE

\* Mutant: a barrier of num_sources + 1 parties.
BarrierIsLeaderOneMore(count, n) == count + 1 >= n + 1

\* Barrier::new(num_sources): the arrival that brings the count of waiters of
\* the generation to num_sources is the leader and releases the generation.
BarrierIsLeader(count, n) == count + 1 >= n

\* barrier.wait()
BarrierWait(t) ==
    /\ UNCHANGED observer_vars
    /\ pc[t] = "barrier"
    /\ LET b == my_barrier[t] IN
       IF ~BarrierIsLeader(barrier_count[b], num_sources)
       THEN /\ barrier_count' = [barrier_count EXCEPT ![b] = barrier_count[b] + 1]
            /\ pc' = [pc EXCEPT ![t] = "waiting"]
       ELSE /\ barrier_count' = [barrier_count EXCEPT ![b] = 0]
            /\ pc' = [u \in Threads |->
                        IF u = t \/ (pc[u] = "waiting" /\ my_barrier[u] = b)
                        THEN "passed" ELSE pc[u]]
    /\ UNCHANGED <<state_vars, config_vars, next_barrier, history_vars, lock,
                   my_barrier, result>>

\* self.state.lock() after the barrier and Phase B, the `if let Closing` block;
\* the lock stays held for the readout. instant is the reading of SystemTime::now().
Decide(t) ==
    /\ UNCHANGED observer_vars
    /\ UNCHANGED previous
    /\ pc[t] = "passed"
    /\ lock = None
    /\ lock' = Some(t)
    /\ pc' = [pc EXCEPT ![t] = "readout"]
    /\ IF kind.tag = "Closing"
       THEN \E instant \in Instants :
            LET action == DecideAction(kind.should_commit, instant,
                                       next_record_index_to_persist,
                                       last_persisted_epoch_decision_instant, options)
            IN /\ kind' = MakeClosed(kind, action, instant)
               /\ next_record_index_to_persist' =
                     IF ShouldPersist(action) THEN PersistedIndex(NumRecords)
                     ELSE next_record_index_to_persist
               /\ last_persisted_epoch_decision_instant' =
                     IF ShouldPersist(action) THEN instant
                     ELSE last_persisted_epoch_decision_instant
               /\ decided' = [close |-> close_no, term |-> submitted.term,
                              commit |-> submitted.commit, states |-> submitted.states,
                              voters |-> submitted.voters, action |-> action,
                              instant |-> instant, epoch_id |-> kind.epoch_id,
                              last_persisted |-> last_persisted_epoch_decision_instant,
                              next_index |-> next_record_index_to_persist]
               /\ submitted' = NoSubmission
       ELSE UNCHANGED <<state_vars, submitted, decided>>
    /\ UNCHANGED <<config_vars, barrier_vars, my_barrier, result,
                   calls, handed_out, close_no, num_committed, joined, retried, logging, log>>

\* Mutant: the confirmation is not counted.
ConfirmUncounted(k) == k

\* `*num_source_confirmations += 1`
Confirm(k) == [k EXCEPT !.num_source_confirmations = @ + 1]

\* Mutant: the state rolls over one confirmation early.
AllConfirmedOneShort(confirmations, n) == confirmations = n - 1

\* Mutant: the state rolls over at the first confirmation.
AllConfirmedAtFirst(confirmations, n) == confirmations = 1

\* Mutant: the state rolls over only after one confirmation more than there are sources.
AllConfirmedOneMore(confirmations, n) == confirmations = n + 1

\* `*num_source_confirmations == self.num_sources`, after the increment.
AllConfirmed(confirmations, n) == confirmations = n

\* How a confirmation can end. The last confirmation of a committed close adds 1
\* to the epoch id: at u64::MAX a build with overflow checks panics there, a
\* build without them wraps and returns.
ConfirmationOutcomes(k, n) ==
    IF AllConfirmed(Confirm(k).num_source_confirmations, n) /\ AddOverflows(k)
    THEN {"panic", "return"}
    ELSE {"return"}

\* Phase C: the match on the Closed state, the confirmation and the return.
Readout(t) ==
    /\ UNCHANGED observer_vars
    /\ pc[t] = "readout"
    /\ lock = Some(t)
    /\ lock' = None
    /\ IF kind.tag = "Closed"
       THEN \E outcome \in ConfirmationOutcomes(kind, num_sources) :
            LET closed_epoch == MakeClosedEpoch(kind, options) IN
            IF outcome = "panic"
            THEN \* the confirmation is counted, the guard is dropped by the unwinding
                 /\ kind' = Confirm(kind)
                 /\ pc' = [pc EXCEPT ![t] = "panicked"]
                 /\ UNCHANGED <<result, next_barrier, close_no, num_committed, handed_out,
                                logging, log, previous>>
            ELSE
            /\ result' = [result EXCEPT ![t] = Some(closed_epoch)]
            /\ pc' = [pc EXCEPT ![t] = "idle"]
            /\ handed_out' =
                  IF kind.num_source_confirmations = 0 /\ IsSome(closed_epoch.common_info)
                  THEN Append(handed_out, Unwrap(closed_epoch.common_info).id)
                  ELSE handed_out
            /\ log' = IF logging /\ kind.num_source_confirmations = 0 /\ Len(log) < MaxLog
                         /\ OnScript(decided)
                      THEN Append(log, LogEntry(decided, closed_epoch))
                      ELSE log
            /\ logging' = (logging /\ (kind.num_source_confirmations = 0 => OnScript(decided)))
            /\ IF AllConfirmed(Confirm(kind).num_source_confirmations, num_sources)
               THEN /\ kind' = NewClosing(NextEpochId(kind), next_barrier)
                    /\ next_barrier' = next_barrier + 1
                    /\ close_no' = close_no + 1
                    /\ num_committed' = num_committed +
                          (IF decided.action \in {"Commit", "CommitAndPersist"} THEN 1 ELSE 0)
                    /\ previous' = IF tracing THEN PreviousOf(kind, close_no) ELSE previous
               ELSE /\ kind' = Confirm(kind)
                    /\ UNCHANGED <<next_barrier, close_no, num_committed, previous>>
       ELSE \* unreachable!()
            /\ pc' = [pc EXCEPT ![t] = "panicked"]
            /\ UNCHANGED <<kind, result, next_barrier, close_no, num_committed, handed_out,
                           logging, log, previous>>
    /\ UNCHANGED <<next_record_index_to_persist, last_persisted_epoch_decision_instant,
                   config_vars, barrier_count, my_barrier, calls, joined, retried,
                   submitted, decided>>

Next ==
    \/ \E t \in Threads : Call(t)
    \/ \E t \in Threads : LockLoop(t)
    \/ \E t \in Threads : LoopBody(t)
    \/ \E t \in Threads : Wake(t)
    \/ \E t \in Threads : BarrierWait(t)
    \/ \E t \in Threads : Decide(t)
    \/ \E t \in Threads : Readout(t)

Spec == Init /\ [][Next]_vars

\* EpochManager::epoch_id, called by a thread that is not in wait_for_epoch_close:
\* it takes the lock, reads the id of the state and releases the lock.
EpochIdCall ==
    /\ lock = None
    /\ epoch_id_read' = Some(KindEpochId(kind))
    /\ UNCHANGED <<state_vars, config_vars, thread_vars, barrier_vars, history_vars, lock>>


\* One step of thread t in wait_for_epoch_close, or its next call.
ThreadStep(t) ==
    \/ Call(t)
    \/ LockLoop(t)
    \/ LoopBody(t)
    \/ Wake(t)
    \/ BarrierWait(t)
    \/ Decide(t)
    \/ Readout(t)

\* Every source goes on calling and every thread that can take a step takes one.
\* At each position of a thread one step alone is possible; it is always enabled
\* there, except for the two lock acquisitions, which the other threads disable
\* and enable again: the mutex (parking_lot's, eventually fair) is not withheld
\* for ever from a thread that keeps asking for it, hence strong fairness.
Fairness == \A t \in Threads : SF_vars(ThreadStep(t))

\* Progress depends on neither the options nor the votes' effect on the action:
\* the fair specification starts from the test's options alone.
InitLive ==
    /\ \E n \in 1..MaxSources :
          /\ New(n, InitialEpochId, [max_num_records_before_persist |-> 1,
                                     max_interval_before_persist_in_seconds |-> 1,
                                     enable_app_checkpoints |-> TRUE])
          /\ callers = 1..n
    /\ logging = FALSE
    /\ tracing = FALSE
    /\ horizon = MaxInstant
    /\ InitThreads

LiveSpec == InitLive /\ [][Next]_vars /\ Fairness

\* The manager with an observer that calls epoch_id() at any time.
ObservedNext ==
    \/ Next
    \/ EpochIdCall

ObservedSpec == InitLive /\ [][ObservedNext]_vars

\* The managers of test_epoch_manager_persist_message (one record, one second,
\* checkpoints enabled and disabled); the closes of the test's single-source
\* manager are logged.
InitTest ==
    /\ \E n \in 1..MaxSources, enable \in BOOLEAN :
          /\ New(n, InitialEpochId, [max_num_records_before_persist |-> 1,
                                     max_interval_before_persist_in_seconds |-> 1,
                                     enable_app_checkpoints |-> enable])
          /\ callers = 1..n
    /\ logging = (num_sources = 1)
    /\ tracing = FALSE
    /\ horizon = MaxInstant
    /\ InitThreads

TestSpec == InitTest /\ [][Next]_vars

\* epoch_id(): the id held in the state, whichever variant.
EpochId == KindEpochId(kind)

\* The manager of the fair specification, with the close before the current
\* one remembered.
InitTraced ==
    /\ \E n \in 1..MaxSources :
          /\ New(n, InitialEpochId, [max_num_records_before_persist |-> 1,
                                     max_interval_before_persist_in_seconds |-> 1,
                                     enable_app_checkpoints |-> TRUE])
          /\ callers = 1..n
    /\ logging = FALSE
    /\ tracing = TRUE
    /\ horizon = MaxInstant
    /\ InitThreads

TracedSpec == InitTraced /\ [][Next]_vars

\* The same manager under fair scheduling. Whether a close terminates and
\* whether the state rolls over depend on no reading of the clock: the clock
\* reads the construction instant or less.
InitTracedLive ==
    /\ \E n \in 1..MaxSources :
          /\ New(n, InitialEpochId, [max_num_records_before_persist |-> 1,
                                     max_interval_before_persist_in_seconds |-> 1,
                                     enable_app_checkpoints |-> TRUE])
          /\ callers = 1..n
    /\ logging = FALSE
    /\ tracing = TRUE
    /\ horizon = ConstructionInstant
    /\ InitThreads

TracedLiveSpec == InitTracedLive /\ [][Next]_vars /\ Fairness

\* A manager with a one-second interval, run for a second longer, so that two
\* persists a second apart fit in.
InitCadence ==
    /\ \E n \in 1..MaxSources :
          /\ New(n, InitialEpochId, [max_num_records_before_persist |-> 1,
                                     max_interval_before_persist_in_seconds |-> 1,
                                     enable_app_checkpoints |-> TRUE])
          /\ callers = 1..n
    /\ logging = FALSE
    /\ tracing = FALSE
    /\ horizon = MaxInstant + TicksPerSecond
    /\ InitThreads

CadenceSpec == InitCadence /\ [][Next]_vars

\* A manager constructed with an epoch id at the top of the id range.
InitOverflow ==
    /\ \E n \in 1..MaxSources, epoch_id \in {MaxEpochId - 1, MaxEpochId} :
          /\ New(n, epoch_id, [max_num_records_before_persist |-> 1,
                               max_interval_before_persist_in_seconds |-> 1,
                               enable_app_checkpoints |-> TRUE])
          /\ callers = 1..n
    /\ logging = FALSE
    /\ tracing = FALSE
    /\ horizon = MaxInstant
    /\ InitThreads

OverflowSpec == InitOverflow /\ [][Next]_vars

\* A manager used by one thread per source, or by one thread more: a surplus caller.
InitSurplus ==
    /\ \E n \in 1..MaxSources, surplus \in 0..1 :
          /\ New(n, InitialEpochId, [max_num_records_before_persist |-> 1,
                                     max_interval_before_persist_in_seconds |-> 1,
                                     enable_app_checkpoints |-> TRUE])
          /\ callers = 1..(n + surplus)
    /\ logging = FALSE
    /\ tracing = FALSE
    /\ horizon = MaxInstant
    /\ InitThreads

SurplusSpec == InitSurplus /\ [][Next]_vars

\* A manager misused: constructed for no source or for one, and called by one
\* thread more than it has sources.
InitMisuse ==
    /\ \E n \in 0..1 :
          /\ New(n, InitialEpochId, [max_num_records_before_persist |-> 1,
                                     max_interval_before_persist_in_seconds |-> 1,
                                     enable_app_checkpoints |-> TRUE])
          /\ callers = 1..(n + 1)
    /\ logging = FALSE
    /\ tracing = FALSE
    /\ horizon = MaxInstant
    /\ InitThreads

MisuseSpec == InitMisuse /\ [][Next]_vars

\* ------------------------------------------------------------- properties
Returned(t) == result[t] # None
Res(t) == Unwrap(result[t])
\* The calls whose result belongs to the close last decided.
Readers == {t \in Threads : Returned(t) /\ joined[t] = decided.close}
PastBarrier(t) == pc[t] \in {"passed", "readout"}
\* The threads whose vote went into the close now open or being read out.
CloseVoters == IF kind.tag = "Closing" THEN submitted.voters ELSE decided.voters
StatePairs(m) == {<<h, m[h]>> : h \in DOMAIN m}

\* C1: all the calls that take part in one close return the same should_terminate,
\* the same presence of common_info, the same id and source_states snapshot, the
\* same presence of checkpoint_writer and sink_persist_queue and the same
\* decision_instant.
C1_Agreement ==
    \A t1 \in Threads, t2 \in Threads :
        (Returned(t1) /\ Returned(t2) /\ joined[t1] = joined[t2]) =>
            /\ Res(t1).should_terminate = Res(t2).should_terminate
            /\ Res(t1).decision_instant = Res(t2).decision_instant
            /\ IsSome(Res(t1).common_info) = IsSome(Res(t2).common_info)
            /\ IsSome(Res(t1).common_info) =>
                  LET c1 == Unwrap(Res(t1).common_info)
                      c2 == Unwrap(Res(t2).common_info)
                  IN /\ c1.id = c2.id
                     /\ c1.source_states = c2.source_states
                     /\ IsSome(c1.checkpoint_writer) = IsSome(c2.checkpoint_writer)
                     /\ IsSome(c1.sink_persist_queue) = IsSome(c2.sink_persist_queue)

\* Two callers of one persisted close both hold their result, writer included.
C1_Witness ==
    \E t1 \in Threads, t2 \in Threads :
        /\ t1 # t2 /\ Returned(t1) /\ Returned(t2) /\ joined[t1] = joined[t2]
        /\ IsSome(Res(t1).common_info)
        /\ IsSome(Unwrap(Res(t2).common_info).checkpoint_writer)

\* C2: the should_terminate a close returns is the AND of the request_termination
\* arguments of exactly the num_sources calls of that close.
C2_TerminateIsAnd ==
    \A t \in Readers :
        /\ Cardinality(decided.voters) = num_sources
        /\ Res(t).should_terminate = (FALSE \notin decided.term)

\* Two sources both requested termination and were told to terminate.
C2_Witness ==
    \E t \in Readers :
        /\ num_sources = 2 /\ close_no >= 1
        /\ Res(t).should_terminate /\ decided.term = {TRUE}

\* C3: common_info is present iff some call of the close requested commit; with
\* no commit request the action is Nothing and every caller gets None.
C3_CommonInfoIffCommit ==
    \A t \in Readers :
        /\ IsSome(Res(t).common_info) = (TRUE \in decided.commit)
        /\ (TRUE \notin decided.commit) => decided.action = "Nothing"

\* One of two sources requested commit, the other did not, and common_info is there.
C3_Witness ==
    \E t \in Readers :
        /\ num_sources = 2
        /\ decided.commit = {TRUE, FALSE}
        /\ IsSome(Res(t).common_info)

\* C4: once the closes made so far are complete, epoch_id() is the initial id
\* plus the number of those closes whose action committed.
C4_EpochIdCountsCommits ==
    kind.tag = "Closing" => EpochId = initial_epoch_id + num_committed

\* Two closes are complete, one committed and one not.
C4_Witness ==
    /\ kind.tag = "Closing" /\ close_no = 2 /\ num_committed = 1
    /\ EpochId = initial_epoch_id + 1

\* C5: the ids handed out by the successive committed closes are initial,
\* initial + 1, ... with no gap and no repeat, and every id a caller holds is the
\* last of them.
C5_IdsHandedOutOnce ==
    /\ \A i \in 1..Len(handed_out) : handed_out[i] = initial_epoch_id + (i - 1)
    /\ \A t \in Readers :
          IsSome(Res(t).common_info) =>
              /\ Len(handed_out) > 0
              /\ Unwrap(Res(t).common_info).id = handed_out[Len(handed_out)]

\* A committed close, a close that did not commit, then a second committed close.
C5_Witness ==
    /\ Len(handed_out) = 2
    /\ close_no = 3
    /\ num_committed = 2

\* C6: a call is past the barrier, or has returned, only when every one of the
\* num_sources sources has submitted its vote to that same close.
C6_BarrierHoldsUntilAllVoted ==
    \A t \in Threads :
        /\ PastBarrier(t) =>
              CloseVoters = callers /\ Cardinality(CloseVoters) = num_sources
        /\ Returned(t) =>
              decided.voters = callers /\ Cardinality(decided.voters) = num_sources

\* One of two sources waits at the barrier while the other has not voted yet.
C6_Witness ==
    \E t \in Threads, u \in Threads :
        /\ num_sources = 2
        /\ pc[t] = "waiting"
        /\ pc[u] \in {"idle", "loop", "match"} /\ u \in callers /\ joined[u] = -1

\* C7: under fair scheduling, with every source calling once per close, every
\* call returns a ClosedEpoch, the calls that slept in the retry loop included.
C7_EveryCallReturns ==
    \A t \in Threads :
        (pc[t] # "idle") ~> (pc[t] = "idle" /\ Returned(t))

\* A call that arrived during the readout of the previous close, and slept, has
\* returned.
C7_Witness ==
    \E t \in Threads :
        /\ pc[t] = "idle" /\ Returned(t) /\ retried[t]
        /\ calls[t] = 2

\* C8: the source_states snapshot a committed close returns is exactly the map of
\* the num_sources votes submitted to that close.
C8_SnapshotIsTheVotes ==
    \A t \in Readers :
        IsSome(Res(t).common_info) =>
            LET snapshot == Unwrap(Res(t).common_info).source_states IN
            /\ StatePairs(snapshot) = decided.states
            /\ DOMAIN snapshot = callers
            /\ Cardinality(decided.states) = num_sources

\* The second committed close of two sources returns states that differ from
\* those of the first in both entries.
C8_Witness ==
    \E t \in Readers :
        /\ num_sources = 2 /\ Len(handed_out) = 2
        /\ IsSome(Res(t).common_info)
        /\ Unwrap(Res(t).common_info).source_states =
              [h \in {1, 2} |-> IF h = 1 THEN "Restartable" ELSE "NonRestartable"]

\* C9: checkpoint_writer is present iff the action is CommitAndPersist,
\* enable_app_checkpoints is set and no submitted source state is NonRestartable.
C9_WriterIffPersistEnabledRestartable ==
    \A t \in Readers :
        LET writer == IF IsSome(Res(t).common_info)
                      THEN IsSome(Unwrap(Res(t).common_info).checkpoint_writer)
                      ELSE FALSE
        IN writer = (/\ decided.action = "CommitAndPersist"
                     /\ options.enable_app_checkpoints
                     /\ \A p \in decided.states : p[2] \in {"NotStarted", "Restartable"})

\* A persisted close with checkpoints enabled and one NonRestartable vote among
\* two hands out no writer.
C9_Witness ==
    \E t \in Readers :
        /\ num_sources = 2
        /\ decided.action = "CommitAndPersist"
        /\ options.enable_app_checkpoints
        /\ decided.states = {<<1, "Restartable">>, <<2, "NonRestartable">>}
        /\ IsSome(Res(t).common_info)
        /\ ~IsSome(Unwrap(Res(t).common_info).checkpoint_writer)

\* C10: sink_persist_queue is present iff the action is CommitAndPersist,
\* whatever enable_app_checkpoints and the source states are.
C10_QueueIffPersist ==
    \A t \in Readers :
        LET queue == IF IsSome(Res(t).common_info)
                     THEN IsSome(Unwrap(Res(t).common_info).sink_persist_queue)
                     ELSE FALSE
        IN queue = (decided.action = "CommitAndPersist")

\* The queue is handed out with checkpoints disabled and a NonRestartable source.
C10_Witness ==
    \E t \in Readers :
        /\ ~options.enable_app_checkpoints
        /\ \E p \in decided.states : p[2] = "NonRestartable"
        /\ IsSome(Res(t).common_info)
        /\ IsSome(Unwrap(Res(t).common_info).sink_persist_queue)

\* The time elapsed from earlier to instant, in ticks; none when the clock went back.
Elapsed(instant, earlier) == IF instant > earlier THEN instant - earlier ELSE 0

\* C11: a close with a commit request is CommitAndPersist iff the records since
\* the last persist reach max_num_records_before_persist or the time since the
\* last persist decision reaches max_interval_before_persist_in_seconds, and is
\* Commit otherwise; a close without a commit request is Nothing.
C11_PersistPolicy ==
    decided.close >= 0 =>
        LET records == NumRecords - decided.next_index
            due == \/ records >= options.max_num_records_before_persist
                   \/ Elapsed(decided.instant, decided.last_persisted)
                         >= options.max_interval_before_persist_in_seconds * TicksPerSecond
        IN /\ (TRUE \in decided.commit /\ due) => decided.action = "CommitAndPersist"
           /\ (TRUE \in decided.commit /\ ~due) => decided.action = "Commit"
           /\ (TRUE \notin decided.commit) => decided.action = "Nothing"

\* A committing close below both thresholds: half a second after the last persist.
C11_Witness ==
    /\ decided.close >= 0 /\ TRUE \in decided.commit
    /\ options.max_num_records_before_persist = 1
    /\ options.max_interval_before_persist_in_seconds = 1
    /\ decided.instant - decided.last_persisted = 1
    /\ decided.action = "Commit"
    /\ \E t \in Readers : IsSome(Res(t).common_info)

\* A close made with no wait after an earlier instant: the clock reads the same.
NoWait(instant, earlier) == instant = earlier

\* C12: with one source, a one-record limit, a one-second interval and
\* checkpoints enabled, of three consecutive commit closes the first, made right
\* after construction, returns no checkpoint writer and no sink persist queue;
\* the second, made with no wait after the first, returns both; the third, made
\* a second or more later, returns both.
C12_TestPersistMessage ==
    (num_sources = 1 /\ options.enable_app_checkpoints
        /\ options.max_num_records_before_persist = 1
        /\ options.max_interval_before_persist_in_seconds = 1) =>
        /\ (Len(log) >= 1 /\ NoWait(log[1].instant, ConstructionInstant))
              => (~log[1].writer /\ ~log[1].queue)
        /\ (Len(log) >= 2 /\ NoWait(log[1].instant, ConstructionInstant)
                /\ NoWait(log[2].instant, log[1].instant))
              => (log[2].writer /\ log[2].queue)
        /\ (Len(log) >= 3 /\ NoWait(log[1].instant, ConstructionInstant)
                /\ NoWait(log[2].instant, log[1].instant)
                /\ log[3].instant - log[2].instant >= TicksPerSecond)
              => (log[3].writer /\ log[3].queue)

\* What the code does on the second close: it commits without persisting.
C12_SecondCloseOnlyCommits ==
    (num_sources = 1
        /\ Len(log) >= 2 /\ NoWait(log[1].instant, ConstructionInstant)
        /\ NoWait(log[2].instant, log[1].instant))
      => (log[2].action = "Commit" /\ ~log[2].writer /\ ~log[2].queue)

\* The three closes of the test have been made.
C12_Witness ==
    /\ num_sources = 1 /\ options.enable_app_checkpoints
    /\ Len(log) = 3
    /\ NoWait(log[1].instant, ConstructionInstant)
    /\ NoWait(log[2].instant, log[1].instant)
    /\ log[3].instant - log[2].instant >= TicksPerSecond
    /\ ~log[1].writer /\ ~log[1].queue
    /\ log[3].writer /\ log[3].queue

\* The time-based condition of a decided close: the time since the last persist
\* decision reaches the interval.
IntervalReached(d) ==
    Elapsed(d.instant, d.last_persisted)
        >= options.max_interval_before_persist_in_seconds * TicksPerSecond

VoteFolded == kind'.tag = "Closing" /\ kind' # kind /\ kind'.source_states # EmptyMap

ClosedDecision(k) == [k EXCEPT !.num_source_confirmations = 0]

C15_SurplusVoteFolded ==
    /\ decided.close >= 0
    /\ Cardinality(decided.voters) = num_sources + 1

\* C16: the value returned by epoch_id() never decreases, whatever the initial
\* epoch id, the largest id followed by a committed close included.
C16_EpochIdNeverDecreases == [][EpochId' >= EpochId]_vars

\* The manager was constructed with the largest id and a committed close of
\* that epoch has been completed: every caller has its result.
C16_Witness ==
    /\ initial_epoch_id = MaxEpochId
    /\ decided.close = 0 /\ decided.epoch_id = MaxEpochId
    /\ ShouldCommit(decided.action)
    /\ kind.tag = "Closing"
    /\ \A t \in callers : Returned(t) /\ Res(t).common_info # None

\* C17: epoch_id() returns the id held in the state, Closing or Closed, and
\* changes nothing: the constructed id before any close, the closed id k while a
\* committed close is being read out, k + 1 only once its last caller confirmed.
C17_EpochIdCallFrame ==
    [][ /\ epoch_id_read' # epoch_id_read =>
              UNCHANGED <<state_vars, config_vars, thread_vars, barrier_vars, history_vars, lock>>
        /\ EpochIdCall =>
              LET id == Unwrap(epoch_id_read') IN
              /\ id = kind.epoch_id /\ id = kind'.epoch_id
              /\ close_no = 0 => id = initial_epoch_id
              /\ kind.tag = "Closed" => id = decided.epoch_id
              /\ id = initial_epoch_id + num_committed
              /\ (decided.close >= 0 /\ id = decided.epoch_id + 1) =>
                    /\ kind.tag = "Closing" /\ close_no = decided.close + 1
                    /\ ShouldCommit(decided.action)
                    /\ \A u \in decided.voters : ~PastBarrier(u) ]_vars

\* epoch_id() returned the closed id after the first of two callers of a
\* committed close had confirmed, and the state is still Closed.
C17_Witness ==
    /\ num_sources = 2
    /\ kind.tag = "Closed" /\ ShouldCommit(kind.action)
    /\ kind.num_source_confirmations = 1
    /\ decided.close = 1
    /\ epoch_id_read = Some(decided.epoch_id)
    /\ decided.epoch_id = initial_epoch_id + 1

\* A step runs Phase B: the state goes from Closing to Closed.
PhaseB == kind.tag = "Closing" /\ kind'.tag = "Closed"

\* C18: Phase B runs once per close, by the first thread that takes the lock
\* after the barrier, and only when all N votes of the close are folded in; the
\* other threads of the close find the state Closed and only read it.
C18_PhaseBOncePerClose ==
    [][ /\ PhaseB =>
              /\ Cardinality(submitted.voters) = num_sources
              /\ Cardinality(DOMAIN kind.source_states) = num_sources
              /\ \A u \in submitted.voters : pc[u] = "passed" /\ joined[u] = close_no
              /\ \E t \in submitted.voters : pc'[t] = "readout" /\ lock' = Some(t)
              /\ decided.close # close_no /\ decided'.close = close_no
        /\ \A t \in Threads :
              (pc[t] = "passed" /\ pc'[t] = "readout") =>
                  /\ kind'.tag = "Closed"
                  /\ decided'.close = close_no /\ joined[t] = close_no
                  /\ kind.tag = "Closed" =>
                        /\ UNCHANGED <<state_vars, decided>>
                        /\ \E u \in decided.voters \ {t} : pc[u] = "idle" \/ joined[u] # close_no
        /\ (kind.tag = "Closed" /\ kind'.tag = "Closed")
              => ClosedDecision(kind') = ClosedDecision(kind) ]_vars

\* The second of two callers takes the lock after the barrier and finds the
\* state already Closed, the first having confirmed.
C18_Witness ==
    \E t \in callers :
        /\ num_sources = 2
        /\ pc[t] = "readout" /\ lock = Some(t)
        /\ kind.tag = "Closed" /\ kind.num_source_confirmations = 1
        /\ decided.close = close_no /\ t \in decided.voters

\* A step takes the state out of Closed.
LeavesClosed == kind.tag = "Closed" /\ kind'.tag # "Closed"

\* C19: the state leaves Closed exactly when the N-th caller of the close
\* confirms, and enters a fresh Closing state: should_terminate true,
\* should_commit false, no source states, a new barrier, and the closed id plus
\* one if the action committed, else the closed id; so the decision of a close
\* is made of the votes of that close alone.
C19_RolloverIsFresh ==
    [][ /\ LeavesClosed =>
              /\ kind.num_source_confirmations = num_sources - 1
              /\ \E t \in decided.voters : pc[t] = "readout" /\ pc'[t] = "idle"
              /\ \A u \in decided.voters : pc'[u] \notin {"passed", "readout"}
              /\ kind'.tag = "Closing"
              /\ kind'.should_terminate = TRUE
              /\ kind'.should_commit = FALSE
              /\ kind'.source_states = EmptyMap
              /\ kind'.epoch_id = IF kind.action \in {"Commit", "CommitAndPersist"}
                                  THEN kind.epoch_id + 1 ELSE kind.epoch_id
              /\ kind'.barrier \notin {my_barrier[u] : u \in Threads}
              /\ barrier_count'[kind'.barrier] = 0
        /\ \A t \in Threads :
              (kind.tag = "Closed" /\ pc[t] = "readout" /\ pc'[t] # "readout") =>
                  (LeavesClosed <=> kind.num_source_confirmations = num_sources - 1)
        /\ PhaseB =>
              /\ kind'.terminating = (FALSE \notin submitted.term)
              /\ (kind'.action # "Nothing") = (TRUE \in submitted.commit)
              /\ StatePairs(kind'.source_states) = submitted.states ]_vars

\* A close that committed and did not terminate has been rolled over: the new
\* Closing state carries none of its votes.
C19_Witness ==
    /\ kind.tag = "Closing" /\ kind.source_states = EmptyMap
    /\ kind.should_terminate /\ ~kind.should_commit
    /\ decided.close >= 0 /\ close_no = decided.close + 1
    /\ ShouldCommit(decided.action) /\ FALSE \in decided.term
    /\ kind.epoch_id = decided.epoch_id + 1
    /\ \A u \in decided.voters : Returned(u)

\* The callers of the close last decided that have completed their readout.
CompletedReadout == {u \in decided.voters : pc[u] \notin {"passed", "readout"}}

\* C20: whenever the lock is free and the state is Closed,
\* 0 < num_source_confirmations <= N, and num_source_confirmations is the number
\* of callers of that close that have completed their readout.
C20_ConfirmationsCountReadouts ==
    (lock = None /\ kind.tag = "Closed") =>
        /\ 0 < kind.num_source_confirmations
        /\ kind.num_source_confirmations <= num_sources
        /\ decided.close = close_no
        /\ kind.num_source_confirmations = Cardinality(CompletedReadout)

\* The lock is free between the readouts of the two callers of a close: one has
\* returned, the other has not taken the lock yet.
C20_Witness ==
    \E t \in callers, u \in callers :
        /\ lock = None /\ kind.tag = "Closed"
        /\ kind.num_source_confirmations = 1
        /\ Returned(t) /\ joined[t] = close_no
        /\ pc[u] = "passed" /\ joined[u] = close_no

\* The persist scalars of the outer state.
PersistScalars == <<next_record_index_to_persist, last_persisted_epoch_decision_instant>>

\* C21: the persist scalars change only in a Phase B step whose action is
\* CommitAndPersist, which sets last_persisted_epoch_decision_instant to the
\* decision instant of the close, the one returned as decision_instant; Commit
\* and Nothing closes, vote submissions, readouts and epoch_id() calls leave
\* them unchanged.
C21_PersistScalarsFrame ==
    [][ /\ (PhaseB /\ kind'.action = "CommitAndPersist") =>
              /\ last_persisted_epoch_decision_instant' = kind'.instant
              /\ next_record_index_to_persist' = NumRecords
        /\ ~(PhaseB /\ kind'.action = "CommitAndPersist") => UNCHANGED PersistScalars
        /\ \A t \in Threads :
              (pc[t] = "readout" /\ pc'[t] = "idle" /\ decided.action = "CommitAndPersist") =>
                  /\ Unwrap(result'[t]).decision_instant = last_persisted_epoch_decision_instant
                  /\ Unwrap(result'[t]).decision_instant = decided.instant ]_vars

\* A close persisted at an instant later than the last persist, every caller holds
\* that instant as decision_instant, and epoch_id() has been called since.
C21_Witness ==
    /\ decided.close >= 0 /\ decided.action = "CommitAndPersist"
    /\ decided.instant > decided.last_persisted
    /\ last_persisted_epoch_decision_instant = decided.instant
    /\ \A t \in decided.voters : Returned(t) /\ Res(t).decision_instant = decided.instant
    /\ epoch_id_read = Some(decided.epoch_id + 1)

\* The decision instant of the decided close is earlier than the last persist.
ClockWentBack(d) == d.instant < d.last_persisted

\* C22: when the decision instant of a committing close is earlier than
\* last_persisted_epoch_decision_instant the elapsed time counts as 0: the close
\* is decided without error, and the time-based trigger fires only if
\* max_interval_before_persist_in_seconds is 0.
C22_ClockRegression ==
    (decided.close >= 0 /\ TRUE \in decided.commit /\ ClockWentBack(decided)) =>
        /\ kind.tag = "Closed" => kind.instant = decided.instant
        /\ decided.action \in {"Commit", "CommitAndPersist"}
        /\ options.max_num_records_before_persist >= 1 =>
              (decided.action = "CommitAndPersist"
                  <=> options.max_interval_before_persist_in_seconds = 0)
        /\ (decided.action = "CommitAndPersist"
                /\ options.max_interval_before_persist_in_seconds # 0)
              => NumRecords - decided.next_index >= options.max_num_records_before_persist

\* The clock went back by a second or more since the last persist and the close,
\* under a one-second interval, only commits.
C22_Witness ==
    /\ decided.close >= 1 /\ TRUE \in decided.commit
    /\ decided.last_persisted - decided.instant >= TicksPerSecond
    /\ options.max_num_records_before_persist = 1
    /\ options.max_interval_before_persist_in_seconds = 1
    /\ decided.action = "Commit"
    /\ \E t \in Readers : IsSome(Res(t).common_info)

\* The clock went back and the close, under a zero interval, persists.
C22_PersistsAtZeroInterval ==
    /\ decided.close >= 0 /\ ClockWentBack(decided)
    /\ options.max_num_records_before_persist = 1
    /\ options.max_interval_before_persist_in_seconds = 0
    /\ decided.action = "CommitAndPersist"

\* The threads blocked in barrier.wait() or in the sleep of the retry loop.
Blocked == {t \in Threads : pc[t] \in {"barrier", "waiting", "sleep"}}

\* C23: no thread holds the state mutex while it is blocked in the barrier wait
\* or in the sleep of the retry loop; the holder of the mutex is always a thread
\* inside one of the two critical sections, so a thread waiting at the barrier
\* keeps no other source from submitting its vote.
C23_LockNotHeldWhileBlocked ==
    /\ \A t \in Blocked : lock # Some(t)
    /\ \A t \in Threads : lock = Some(t) => pc[t] \in {"match", "readout"}

\* One source waits at the barrier while the other, which had slept in the retry
\* loop, holds the lock and is about to fold its vote.
C23_Witness ==
    \E t \in callers, u \in callers :
        /\ pc[t] = "waiting" /\ my_barrier[t] = kind.barrier
        /\ pc[u] = "match" /\ lock = Some(u) /\ kind.tag = "Closing"
        /\ retried[u]

\* The decision as a function of what does not depend on the order of the votes:
\* the sets of the votes, the persist scalars, the timestamp and the epoch id.
DecisionOf(d) ==
    LET committing == TRUE \in d.commit
        records_due == NumRecords - d.next_index >= options.max_num_records_before_persist
        time_due == Elapsed(d.instant, d.last_persisted)
                        >= options.max_interval_before_persist_in_seconds * TicksPerSecond
    IN [terminating |-> FALSE \notin d.term,
        action |-> IF ~committing THEN "Nothing"
                   ELSE IF records_due \/ time_due THEN "CommitAndPersist" ELSE "Commit",
        epoch_id |-> d.epoch_id,
        source_states |-> d.states]

\* C24: for fixed votes of the N sources, fixed persist scalars and a fixed
\* decision timestamp, the action, should_terminate, the epoch id and the
\* source_states snapshot are the same whatever the order of the votes and
\* whichever thread runs Phase B.
C24_DecisionDeterministic ==
    kind.tag = "Closed" =>
        [terminating |-> kind.terminating,
         action |-> kind.action,
         epoch_id |-> kind.epoch_id,
         source_states |-> StatePairs(kind.source_states)] = DecisionOf(decided)

\* The second source runs Phase B of a close in which only the first source
\* asked for a commit and only the second for termination.
C24_Witness ==
    /\ num_sources = 2 /\ kind.tag = "Closed" /\ kind.num_source_confirmations = 0
    /\ lock = Some(2) /\ pc[2] = "readout"
    /\ decided.commit = {TRUE, FALSE} /\ decided.term = {TRUE, FALSE}
    /\ kind.source_states[1] # kind.source_states[2]
    /\ kind.action = "Commit" /\ ~kind.terminating

\* The decided close follows a close without commit request whose persist
\* interval had elapsed.
AfterOverdueNothing(d, prev) ==
    /\ d.close >= 1 /\ prev.close = d.close - 1
    /\ prev.action = "Nothing"
    /\ Elapsed(prev.instant, d.last_persisted)
          >= options.max_interval_before_persist_in_seconds * TicksPerSecond

\* What a close without commit request does and leaves alone (steps).
NothingCloseFrame ==
    /\ (PhaseB /\ TRUE \notin submitted.commit) =>
          /\ kind'.action = "Nothing"
          /\ kind'.epoch_id = kind.epoch_id
          /\ UNCHANGED PersistScalars
    /\ (kind.tag = "Closed" /\ kind.action = "Nothing") =>
          /\ kind'.epoch_id = kind.epoch_id
          /\ UNCHANGED PersistScalars
          /\ \A t \in Threads :
                (pc[t] = "readout" /\ pc'[t] = "idle") =>
                    Unwrap(result'[t]).common_info = None

FlagFreeResult(d) ==
    LET dec == DecisionOf(d) IN
    [should_terminate |-> dec.terminating,
     has_common_info |-> dec.action # "Nothing",
     id |-> d.epoch_id,
     has_queue |-> dec.action = "CommitAndPersist",
     decision_instant |-> d.instant]

\* The same fields of a returned ClosedEpoch.
ObservedResult(r, d) ==
    [should_terminate |-> r.should_terminate,
     has_common_info |-> IsSome(r.common_info),
     id |-> IF IsSome(r.common_info) THEN Unwrap(r.common_info).id ELSE d.epoch_id,
     has_queue |-> IF IsSome(r.common_info)
                   THEN IsSome(Unwrap(r.common_info).sink_persist_queue) ELSE FALSE,
     decision_instant |-> r.decision_instant]

\* C26: enable_app_checkpoints interferes with nothing but the checkpoint
\* writer: the action, should_terminate, the epoch ids, the decision instants and
\* the presence of sink_persist_queue of every close, and the state the close
\* leaves behind, are functions of the votes, the clock and the other options
\* alone; with the flag false no close returns a checkpoint writer.
C26_EnableFlagNonInterference ==
    /\ \A t \in Readers : ObservedResult(Res(t), decided) = FlagFreeResult(decided)
    /\ \A t \in Threads :
          (Returned(t) /\ ~options.enable_app_checkpoints /\ IsSome(Res(t).common_info))
              => Unwrap(Res(t).common_info).checkpoint_writer = None
    /\ kind.tag = "Closed" =>
          /\ kind.action = DecisionOf(decided).action
          /\ kind.epoch_id = decided.epoch_id
          /\ last_persisted_epoch_decision_instant =
                IF kind.action = "CommitAndPersist" THEN decided.instant
                ELSE decided.last_persisted
          /\ next_record_index_to_persist =
                IF kind.action = "CommitAndPersist" THEN NumRecords ELSE decided.next_index
    /\ (kind.tag = "Closing" /\ decided.close >= 0) =>
          /\ close_no = decided.close + 1
          /\ kind.epoch_id = decided.epoch_id
                + (IF DecisionOf(decided).action = "Nothing" THEN 0 ELSE 1)

\* With checkpoints disabled a persisting close of restartable sources returns
\* the sink persist queue and no checkpoint writer.
C26_Witness ==
    \E t \in Readers :
        /\ ~options.enable_app_checkpoints
        /\ decided.action = "CommitAndPersist"
        /\ \A p \in decided.states : p[2] # "NonRestartable"
        /\ IsSome(Res(t).common_info)
        /\ IsSome(Unwrap(Res(t).common_info).sink_persist_queue)
        /\ Unwrap(Res(t).common_info).checkpoint_writer = None

\* C27: the unreachable! branch is never reached; a thread that has passed the
\* barrier for a close finds, when it takes the lock again, the Closing state of
\* that close holding all N votes or the Closed state of that close, never the
\* state of a later close, so no decision is computed from fewer than N votes.
C27_UnreachableIsUnreachable ==
    \A t \in Threads :
        /\ pc[t] # "panicked"
        /\ pc[t] = "passed" =>
              /\ joined[t] = close_no
              /\ kind.tag = "Closing" =>
                    /\ kind.barrier = my_barrier[t]
                    /\ t \in DOMAIN kind.source_states
                    /\ Cardinality(DOMAIN kind.source_states) = num_sources
                    /\ submitted.voters = callers
              /\ kind.tag = "Closed" =>
                    /\ decided.close = close_no
                    /\ t \in decided.voters
        /\ pc[t] = "readout" =>
              /\ kind.tag = "Closed"
              /\ joined[t] = close_no /\ decided.close = close_no
              /\ Cardinality(DOMAIN kind.source_states) = num_sources
              /\ decided.voters = callers

\* In the second close of a two-source manager one thread is in its readout and
\* the other, past the barrier, has yet to take the lock.
C27_Witness ==
    \E t \in callers, u \in callers :
        /\ num_sources = 2 /\ close_no = 1
        /\ pc[t] = "readout" /\ lock = Some(t) /\ kind.tag = "Closed"
        /\ pc[u] = "passed" /\ joined[u] = 1

\* The interval between persists, in ticks.
IntervalTicks == options.max_interval_before_persist_in_seconds * TicksPerSecond

VotedInOpenClose == {t \in Threads : joined[t] = close_no /\ pc[t] \in {"barrier", "waiting", "passed"}}

\* A step of the retry loop of t that found the state Closed.
RetryStep(t) == pc[t] = "match" /\ kind.tag = "Closed" /\ pc'[t] # pc[t]

\* A step of the retry loop of t that found the state Closing.
FoldStep(t) == pc[t] = "match" /\ kind.tag = "Closing" /\ pc'[t] # pc[t]

\* C29: a call contributes exactly one vote to exactly one close however often
\* it retries: an iteration that finds the state Closed leaves the whole state
\* unchanged, the vote is folded once, in the first iteration that finds the
\* state Closing, and each source taking part in a close has exactly one entry
\* in its source_states.
C29_OneVotePerCall ==
    /\ [](kind.tag = "Closing" =>
              /\ DOMAIN kind.source_states = VotedInOpenClose
              /\ submitted.voters = VotedInOpenClose
              /\ Cardinality(DOMAIN kind.source_states) <= num_sources)
    /\ [](\A t \in Threads : pc[t] \in {"loop", "match", "sleep"} => joined[t] = -1)
    /\ [][ \A t \in Threads :
              /\ RetryStep(t) =>
                    /\ pc'[t] = "sleep" /\ lock' = None
                    /\ UNCHANGED <<state_vars, barrier_vars, my_barrier, result,
                                   submitted, decided, joined>>
              /\ FoldStep(t) =>
                    /\ pc'[t] = "barrier" /\ lock' = None
                    /\ t \notin DOMAIN kind.source_states
                    /\ DOMAIN kind'.source_states = DOMAIN kind.source_states \cup {t}
                    /\ \A u \in DOMAIN kind.source_states :
                          kind'.source_states[u] = kind.source_states[u]
                    /\ joined'[t] = close_no
              /\ (kind.tag = "Closing" /\ kind'.tag = "Closing" /\ ~FoldStep(t)) =>
                    (t \in DOMAIN kind'.source_states <=> t \in DOMAIN kind.source_states)
              /\ (joined[t] >= 0 /\ joined'[t] # joined[t]) =>
                    (pc[t] = "idle" /\ joined'[t] = -1) ]_vars

\* A call that was sent back to sleep by a Closed state, then voted in the next
\* close and returned its result.
C29_Witness ==
    \E t \in callers :
        /\ num_sources = 2
        /\ retried[t] /\ Returned(t) /\ pc[t] = "idle"
        /\ decided.close >= 1 /\ joined[t] = decided.close
        /\ t \in decided.voters /\ Cardinality(decided.voters) = num_sources

\* The close that terminated is the one before the close last decided, which is
\* being read out.
AfterTerminatingClose == previous.terminating /\ decided.close = previous.close + 1

\* The close that terminated is the one before the close now open.
OpenAfterTerminatingClose ==
    kind.tag = "Closing" /\ previous.terminating /\ close_no = previous.close + 1

\* C30: no state is terminal. After a close that returned should_terminate =
\* true to all its callers the last confirmation still rolls the state over to a
\* fresh Closing state, and a further round of N calls completes as a normal
\* close whose should_terminate is computed from its own votes alone.
C30_NoTerminalState ==
    /\ [](kind.tag = "Closed" => kind.num_source_confirmations < num_sources)
    /\ [][ \A t \in Threads :
              /\ (kind.tag = "Closed" /\ kind.terminating
                      /\ pc[t] = "readout" /\ pc'[t] = "idle") =>
                    /\ Res(t)'.should_terminate = TRUE
                    /\ kind.num_source_confirmations = num_sources - 1 =>
                          /\ kind' = NewClosing(NextEpochId(kind), next_barrier)
                          /\ previous' = PreviousOf(kind, close_no)
                          /\ close_no' = close_no + 1
              /\ (AfterTerminatingClose /\ pc[t] = "readout" /\ pc'[t] = "idle") =>
                    /\ joined[t] = decided.close
                    /\ Res(t)'.should_terminate = (FALSE \notin decided.term) ]_vars
    /\ [](AfterTerminatingClose =>
              /\ Cardinality(decided.voters) = num_sources
              /\ kind.tag = "Closed" /\ kind.terminating = (FALSE \notin decided.term))
    /\ (kind.tag = "Closed" /\ kind.terminating) ~> OpenAfterTerminatingClose
    /\ \A t \in 1..MaxSources :
          (OpenAfterTerminatingClose /\ pc[t] # "idle")
          ~> (pc[t] = "idle" /\ Returned(t) /\ joined[t] = decided.close)

\* After a close that terminated, a further close has been decided not to
\* terminate; one caller has returned from it and the other is about to.
C30_Witness ==
    \E t \in callers, u \in callers :
        /\ num_sources = 2
        /\ AfterTerminatingClose
        /\ FALSE \in decided.term
        /\ pc[t] = "idle" /\ Returned(t) /\ joined[t] = decided.close
        /\ Res(t).should_terminate = FALSE
        /\ pc[u] = "readout" /\ joined[u] = decided.close

\* C31: programmer errors are asserted: a manager constructed with
\* num_sources = 0 fails an assertion and is not usable, no call on it returns;
\* and a close in which more than N callers take part is detected by an
\* assertion, it does not complete with a decision.
C31_ProgrammerErrorsAsserted ==
    /\ num_sources = 0 => \A t \in Threads : ~Returned(t)
    /\ Cardinality(CloseVoters) > num_sources =>
          /\ \E t \in Threads : pc[t] = "panicked"
          /\ kind.tag = "Closing"
          /\ \A t \in Threads : ~Returned(t)

\* A manager of one source has completed a close of two callers: the decision
\* was made of two votes and a caller has its ClosedEpoch.
C31_Witness ==
    \E t \in callers :
        /\ num_sources = 1 /\ built
        /\ decided.close >= 0 /\ Cardinality(decided.voters) = 2
        /\ Returned(t) /\ joined[t] = decided.close
        /\ \A u \in Threads : pc[u] # "panicked"

\* A manager of no source was returned by the constructor and a call on it has
\* returned a ClosedEpoch.
C31_ZeroSourcesUsed ==
    \E t \in callers :
        /\ num_sources = 0 /\ built
        /\ Returned(t) /\ decided.close >= 0

\* C32: next_record_index_to_persist is 0 in every reachable state, so the
\* subtraction num_records - next_record_index_to_persist of the persist policy
\* never underflows, whatever the sequence of closes.
C32_IndexAlwaysZero ==
    /\ next_record_index_to_persist = 0
    /\ NumRecords - next_record_index_to_persist >= 0
    /\ decided.close >= 0 =>
          /\ decided.next_index = 0
          /\ NumRecords - decided.next_index >= 0

\* A committing close has evaluated the subtraction after an earlier close
\* persisted and wrote the index.
C32_Witness ==
    /\ decided.close >= 1 /\ TRUE \in decided.commit
    /\ decided.last_persisted # ConstructionInstant
    /\ num_committed >= 1
    /\ kind.tag = "Closed"

\* The optional parts of a ClosedEpoch built from common_info c, checkpoint
\* writer w and sink persist queue q are nested, and the writer has c's id.
OptionsNested(c, w, q) ==
    /\ IsSome(w) => IsSome(q)
    /\ IsSome(q) => IsSome(c)
    /\ (IsSome(w) /\ IsSome(c)) => Unwrap(w).epoch_id = Unwrap(c).id

\* C33: in every Closed state and in every ClosedEpoch returned, the optional
\* parts are nested: checkpoint_writer present implies sink_persist_queue
\* present, which implies common_info present; and the epoch id given to the
\* CheckpointWriter is common_info.id of the same close.
C33_OptionalPartsNested ==
    /\ kind.tag = "Closed" =>
          /\ OptionsNested(CommonInfoFor(kind, options),
                           CheckpointWriterFor(kind, options),
                           SinkPersistQueueFor(kind))
          /\ kind.epoch_id = decided.epoch_id
    /\ \A t \in Threads :
          (Returned(t) /\ IsSome(Res(t).common_info)) =>
              LET c == Unwrap(Res(t).common_info) IN
              /\ OptionsNested(Res(t).common_info, c.checkpoint_writer, c.sink_persist_queue)
              /\ t \in Readers => c.id = decided.epoch_id

\* A persisting close of restartable sources is being read out: one caller
\* holds a ClosedEpoch with a writer, a queue and the common info, the other
\* has yet to read the Closed state.
C33_Witness ==
    \E t \in Readers, u \in callers :
        /\ num_sources = 2 /\ kind.tag = "Closed" /\ kind.action = "CommitAndPersist"
        /\ pc[u] \in {"passed", "readout"}
        /\ IsSome(Res(t).common_info)
        /\ IsSome(Unwrap(Res(t).common_info).checkpoint_writer)
        /\ IsSome(Unwrap(Res(t).common_info).sink_persist_queue)
        /\ Unwrap(Unwrap(Res(t).common_info).checkpoint_writer).epoch_id = kind.epoch_id

====
